---- MODULE Spec2Model ----
(***************************************************************************)
(* Model of the Socket.IO real-time handlers of the DLUX presence API      *)
(* (index.js, embedded in src/coturn/start-coturn.sh): the read-only       *)
(* server (lines 557-858) and the enhanced server (lines 1492-1787).       *)
(*                                                                         *)
(* Every async handler is cut at its awaits.  An external call (HTTP to    *)
(* the data API, a query on the pool) is issued by the handler, applied by *)
(* the collaborator in a step of its own (Apply...) and only then does the  *)
(* handler resume, so handlers of one connection and of different          *)
(* connections interleave exactly at the awaits of the code.               *)
(*                                                                         *)
(* Beside the sockets: the issuance of relay credentials and the HTTP join *)
(* endpoint, the secrets of the API and of the relay as docker-compose.yml *)
(* deploys them, and the cleanup tasks of the presence_sessions table      *)
(* (src/api/sync.js and the schema's cleanup_old_sessions()), the sync     *)
(* cycles of src/api/sync.js as its timer schedules them, and the graceful *)
(* shutdown of the read-only server (lines 862-944).                       *)
(***************************************************************************)
EXTENDS Integers, Sequences, FiniteSets, Bags, TLC

\* ------------------------------------------------------------------ bounds
NumConns == 2
NumRooms == 2
MaxTasks == 2
MaxEvents == 3
MaxFaults == 1
MaxIssued == 3
MaxNow == 2000
MaxLimit == 2
NumRows == 2
SpaceMaxUsers == 1
MaxAge == 122
MaxCycles == 2
MaxSignals == 3

\* ------------------------------------------------------- program constants
MaxContentLength == 2000
\* "Session Data: 2-hour TTL", in minutes.
SessionTtl == 120

Conns == 1..NumConns
Rooms == 1..NumRooms
NoRoom == 0
Guest == "null"
Accounts == {Guest, "alice"}
Variants == {"readonly", "enhanced"}
SignalEvents == {"webrtc-offer", "webrtc-answer", "webrtc-ice-candidate"}
ContentLengths == {0, 1, MaxContentLength, MaxContentLength + 1}
\* req.user?.account: no account (a guest) or a Hive account name.
Identities == {Guest, "alice", "bob"}
\* TURN_SECRET of the environment: not set, or a secret.
Secrets == {"", "S", "T"}
Instants == {0, 999}
Ticks == {999, 1000}

\* Names of Socket.IO rooms: the room every socket has under its own id, the
\* space room `${spaceType}:${spaceId}:${subspace}` and `chat:${roomName}`.
SockRoom(c) == <<"sock", c>>
SpaceRoom(r) == <<"space", r>>
ChatRoom(r) == <<"chat", r>>
\* What a client can put in data.targetSocketId: any string, so the id of a
\* socket (connected, not yet or no longer connected) and also the name of a room.
Targets == {SockRoom(c) : c \in Conns} \cup {SpaceRoom(r) : r \in Rooms}
             \cup {ChatRoom(r) : r \in Rooms}

NoSession == [roomName |-> NoRoom, userAccount |-> Guest]

\* The status of the handler's own GET /api/spaces/:spaceType/:spaceId: answered
\* 200, 404 (no such space or no access) or 500, or 0 when fetch rejects.
SpaceChecks == {0, 200, 404, 500}
\* space.active_users of that answer, and space.max_users: a number, or no
\* number (NULL in presence_space_settings) written as the empty set.
Counts == 0..(MaxLimit + 1)
Limits == {{}} \cup {{n} : n \in 0..MaxLimit}
NoReply == [status |-> 0, check |-> 0, active |-> 0, max |-> {}, identity |-> Guest,
            cred |-> {}]
\* Minutes that pass between two steps of the session table.
Minutes == {60, 61}
NoSweep == [task |-> "none", found |-> EmptyBag, left |-> EmptyBag]

VARIABLES
    variant,        \* which index.js runs: "readonly" or "enhanced"
    conn,           \* conn[c]: "closed" (not yet connected), "open", "gone"
    account,        \* account[c]: the userAccount the client of c puts in its join-space
    currentSession, \* the closure variable currentSession of each connection
    rooms,          \* adapter: space rooms each socket id is in
    chatRooms,      \* adapter: chat:<room> rooms each socket id is in
    sessions,       \* presence_sessions: the room of the row of socket_id c (UNIQUE), or NoRoom
    tasks,          \* tasks[c]: bag of the suspended handler invocations of c
    faults,         \* number of external calls that failed
    joined,         \* joined[c]: room of the latest space-joined sent for c
    nev,            \* number of client events received
    used,           \* number of rooms named by a join-space so far
    last,           \* what the latest step received, called and emitted, in order
    now,            \* Date.now(), in milliseconds
    env,            \* process.env.TURN_SECRET, "" when it is not set
    issued,         \* the calls of generateTurnCredentials answered so far
    reply,          \* the latest answer of POST /api/spaces/:spaceType/:spaceId/join
    ages,           \* presence_sessions by age: minutes since last_activity of each row
    swept,          \* the latest run of a cleanup task: what it found and what it deleted
    known,          \* known[c]: the sockets the client of c has been told are in its room
    cycles,         \* sync.js: the sync cycles started so far, each with its position
    shutdown        \* the read-only server's shutdown: isShuttingDown, its position, the exit

vars == <<variant, conn, account, currentSession, rooms, chatRooms, sessions, tasks, faults,
          joined, nev, used, last, now, env, issued, reply, ages, swept, known, cycles,
          shutdown>>

\* ---------------------------------------------------------------- helpers
\* if (currentSession), the guard of every handler but join-space.
HasSessionAlways(c) == TRUE
HasSession(c) == currentSession[c].roomName /= NoRoom

InRoom(d, ch) ==
    CASE ch[1] = "sock" -> d = ch[2]
      [] ch[1] = "space" -> ch[2] \in rooms[d]
      [] OTHER -> ch[2] \in chatRooms[d]

\* adapter.apply: the sockets of the namespace that are in the room, minus the
\* excepted ids.  A socket id left in adapter.rooms after its socket was removed
\* from the namespace is skipped.
RecipientsIgnoreExcept(ch, except) == {d \in Conns : conn[d] = "open" /\ InRoom(d, ch)}
RecipientsNoConnCheck(ch, except) == {d \in Conns : InRoom(d, ch)} \ except
Recipients(ch, except) == {d \in Conns : conn[d] = "open" /\ InRoom(d, ch)} \ except

\* socket.emit(...): to the socket itself, dropped once the transport is closed.
Self(c) == IF conn[c] = "open" THEN {c} ELSE {}

Members(r) == {d \in Conns : conn[d] = "open" /\ r \in rooms[d]}

Outcomes == IF faults < MaxFaults THEN {TRUE, FALSE} ELSE {TRUE}

CanReceive(c) ==
    conn[c] = "open" /\ nev < MaxEvents /\ BagCardinality(tasks[c]) < MaxTasks

\* A suspended handler: from is currentSession.roomName when the event arrived,
\* left the room its user-left went to, solo whether no other join-space and no
\* disconnect of the connection has run since it started, latest whether no
\* event of the same kind has been received from the connection since, passed
\* the sockets that were handed the broadcast of such a later event meanwhile,
\* failed whether the session write of the handler raised.
Task(kind, pc, room, user, from, solo) ==
    [kind |-> kind, pc |-> pc, room |-> room, user |-> user, from |-> from,
     left |-> NoRoom, snap |-> {}, solo |-> solo, latest |-> TRUE, passed |-> {},
     failed |-> FALSE]
NoTask == Task("none", "none", NoRoom, Guest, NoRoom, FALSE)

Put(b, t) == b (+) SetToBag({t})
Take(b, t) == b (-) SetToBag({t})
Swap(b, t, u) == Put(Take(b, t), u)
\* Every running join-space of the connection is now overlapped by another one
\* or by the disconnect.
Overlapped(b) ==
    LET F[S \in SUBSET BagToSet(b)] ==
            IF S = {} THEN EmptyBag
            ELSE LET t == CHOOSE x \in S : TRUE
                     u == [t EXCEPT !.solo = FALSE]
                 IN F[S \ {t}] (+) [x \in {u} |-> b[t]]
    IN F[BagToSet(b)]
\* The bag with every handler t replaced by img[t].
Rewrite(b, img) ==
    LET F[S \in SUBSET BagToSet(b)] ==
            IF S = {} THEN EmptyBag
            ELSE LET t == CHOOSE x \in S : TRUE
                 IN F[S \ {t}] (+) [x \in {img[t]} |-> b[t]]
    IN F[BagToSet(b)]
\* Another event of the kind has been received: the handlers of the earlier ones
\* are no longer the latest.
Older(b, kind) ==
    Rewrite(b, [t \in BagToSet(b) |->
                   IF t.kind = kind THEN [t EXCEPT !.latest = FALSE] ELSE t])
\* The handler of the latest event of a kind broadcasts to the sockets `to`
\* while handlers of earlier events of that kind are still suspended.
Passed(b, u, to) ==
    Rewrite(b, [t \in BagToSet(b) |->
                   IF t.kind = u.kind /\ u.latest /\ ~t.latest
                   THEN [t EXCEPT !.passed = @ \cup to] ELSE t])
Moving(c) == {t \in BagToSet(tasks[c]) : t.kind \in {"join", "disconnect"}}

\* dir "in": an event received from the client; "call": an external call issued;
\* "out": an event emitted.  cur is currentSession.roomName when the entry was
\* written, to the sockets that were handed the event, mem the connected members
\* of the space room concerned at that moment, t the handler that wrote it.
Entry(c, t, dir, ev, ch, to, room, len, info) ==
    [by |-> c, t |-> t, dir |-> dir, ev |-> ev, ch |-> ch, to |-> to, room |-> room,
     len |-> len, info |-> info, cur |-> currentSession[c].roomName,
     mem |-> IF room = NoRoom THEN {} ELSE Members(room)]

\* What the clients make of the events they are handed: user-joined adds its
\* subject to the receiver's view of its room, user-left removes it, and the
\* users of space-joined are added.
Told(k, e) ==
    [x \in Conns |->
        IF ~(x \in e.to) THEN k[x]
        ELSE CASE e.ev = "user-joined" -> k[x] \cup {e.by}
               [] e.ev = "user-left" -> k[x] \ {e.by}
               [] e.ev = "space-joined" -> k[x] \cup e.info
               [] OTHER -> k[x]]
RECURSIVE ToldAll(_, _)
ToldAll(k, es) == IF es = <<>> THEN k ELSE ToldAll(Told(k, Head(es)), Tail(es))

\* let isShuttingDown = false: the server is up.
Running == [pc |-> "up", isShuttingDown |-> FALSE, signal |-> "none", signals |-> 0,
            runs |-> 0, closed |-> <<>>, failed |-> {}, timer |-> "none", exit |-> {}]

Start(failed) ==
    /\ variant \in Variants
    /\ conn = [c \in Conns |-> "closed"]
    /\ account = [c \in Conns |-> Guest]
    /\ currentSession = [c \in Conns |-> NoSession]
    /\ rooms = [c \in Conns |-> {}]
    /\ chatRooms = [c \in Conns |-> {}]
    /\ sessions = [c \in Conns |-> NoRoom]
    /\ tasks = [c \in Conns |-> EmptyBag]
    /\ faults = failed
    /\ joined = [c \in Conns |-> NoRoom]
    /\ nev = 0
    /\ used = 0
    /\ last = <<>>
    /\ issued = {}
    /\ reply = NoReply
    /\ ages = EmptyBag
    /\ swept = NoSweep
    /\ known = [c \in Conns |-> {}]
    /\ cycles = <<>>
    /\ shutdown = Running

\* The server has just started: no socket has connected.
Init == Start(0) /\ now = 0 /\ env = ""
\* The same, with collaborators that answer every call.
InitReliable == Start(MaxFaults) /\ now = 0 /\ env = ""

\* io.on('connection', (socket) => { let currentSession = null; ... }).  Socket
\* ids and room names are arbitrary strings: connections are numbered in the
\* order they connect and rooms in the order a join-space first names them.
\* A client is a guest or logged in for as long as it is connected: it sends the
\* same userAccount in each of its join-space events.
Connect(c, u) ==
    /\ UNCHANGED <<nev, used>>
    /\ conn[c] = "closed"
    /\ \A d \in Conns : d < c => conn[d] /= "closed"
    /\ conn' = [conn EXCEPT ![c] = "open"]
    /\ account' = [account EXCEPT ![c] = u]
    /\ last' = <<>>
    /\ UNCHANGED <<known, cycles, shutdown, reply, ages, swept, now, env, issued, variant, currentSession, rooms, chatRooms, sessions, tasks, faults,
                   joined>>

\* ------------------------------------------------------------- join-space
\* socket.on('join-space'), up to its first await.  With no currentSession the
\* handler runs straight through to the session write; otherwise it leaves the
\* Socket.IO room of currentSession and awaits cleanupSession.
JoinSpace(c, r, u) ==
    /\ CanReceive(c)
    /\ u = account[c]
    /\ r <= used + 1
    /\ used' = IF r > used THEN r ELSE used
    /\ nev' = nev + 1
    /\ LET old == currentSession[c].roomName
           t == Task("join", IF HasSession(c) THEN "cleanup" ELSE "store", r, u, old,
                     Moving(c) = {})
       IN /\ last' = <<Entry(c, t, "in", "join-space", SpaceRoom(r), {}, r, 0, {})>>
          /\ tasks' = [tasks EXCEPT ![c] = Put(Older(Overlapped(@), "join"), t)]
          /\ IF HasSession(c)
             THEN /\ rooms' = [rooms EXCEPT ![c] = @ \ {old}]
                  /\ UNCHANGED currentSession
             ELSE /\ currentSession' = [currentSession EXCEPT ![c] =
                        [roomName |-> r, userAccount |-> u]]
                  /\ rooms' = [rooms EXCEPT ![c] = @ \cup {r}]
    /\ known' = [known EXCEPT ![c] = {}]
    /\ UNCHANGED <<cycles, shutdown, reply, ages, swept, now, env, issued, variant, conn, account, chatRooms, sessions, faults, joined>>

\* socket.emit('space-error', ...) in the catch of the handler.
SpaceErrorToRoom(c) == Recipients(SpaceRoom(currentSession[c].roomName), {})
SpaceErrorTo(c) == Self(c)

\* join-space with no payload (null or undefined): the destructuring of `data`,
\* the first statement of the try block, raises a TypeError and the catch emits
\* space-error.  No other statement of the handler can reach that catch:
\* cleanupSession and getUsersInSpace catch their own errors and the session
\* write sits in the inner try.
JoinSpaceThrows(c) ==
    /\ CanReceive(c)
    /\ nev' = nev + 1
    /\ last' = <<Entry(c, NoTask, "in", "join-space", SockRoom(c), {}, NoRoom, 0, {}),
                 Entry(c, NoTask, "out", "space-error", SockRoom(c), SpaceErrorTo(c),
                       NoRoom, 0, {})>>
    /\ UNCHANGED <<known, cycles, shutdown, reply, ages, swept, now, env, issued, variant, conn, account, currentSession, rooms, chatRooms,
                   sessions, tasks, faults, joined, used>>

\* The room the previous room's user-left goes to: currentSession.roomName, read
\* after the await of cleanupSession.
LeftRoomIsTarget(c, t) == t.room
LeftRoom(c, t) == currentSession[c].roomName

\* cleanupSession resolved: notify the previous room, replace currentSession,
\* socket.join(roomName), issue the session write.
JoinAfterCleanup(c, t) ==
    /\ UNCHANGED <<nev, used>>
    /\ t \in BagToSet(tasks[c])
    /\ t.kind = "join" /\ t.pc = "cleanupDone"
    /\ LET old == LeftRoom(c, t)
           u == [t EXCEPT !.pc = "store", !.left = old]
       IN /\ last' = <<Entry(c, u, "out", "user-left", SpaceRoom(old),
                             Recipients(SpaceRoom(old), {c}), old, 0, {})>>
          /\ tasks' = [tasks EXCEPT ![c] = Swap(@, t, u)]
    /\ known' = ToldAll(known, last')
    /\ currentSession' = [currentSession EXCEPT ![c] =
          [roomName |-> t.room, userAccount |-> t.user]]
    /\ rooms' = [rooms EXCEPT ![c] = @ \cup {t.room}]
    /\ UNCHANGED <<cycles, shutdown, reply, ages, swept, now, env, issued, variant, conn, account, chatRooms, sessions, faults, joined>>

\* getUsersInSpace of the read-only server: every socket fetchSockets returns.
UsersReadOnly(r) == Recipients(SpaceRoom(r), {})
\* getUsersInSpace of the enhanced server: the fetched sockets that have a row.
UsersEnhanced(snap) == {d \in snap : sessions[d] /= NoRoom}

\* The tail of the handler: user-joined to the room but the sender, space-joined
\* to the sender, socket.join(`chat:${roomName}`).
JoinFinish(c, t, users) ==
    /\ last' = <<Entry(c, t, "out", "user-joined", SpaceRoom(t.room),
                       Recipients(SpaceRoom(t.room), {c}), t.room, 0, {}),
                 Entry(c, t, "out", "space-joined", SockRoom(c), Self(c), t.room, 0, users)>>
    /\ chatRooms' = [chatRooms EXCEPT ![c] = @ \cup {t.room}]
    /\ joined' = [joined EXCEPT ![c] = t.room]
    /\ tasks' = [tasks EXCEPT ![c] = Take(@, t)]
    /\ known' = ToldAll(known, last')

\* catch (dbError) { console.error(...) } of the inner try around the session
\* write: the error is logged and goes no further, the handler continues.
StoreErrorRethrown(t) == t.failed
StoreErrorEscapes(t) == FALSE

\* The session write (and the activity log) settled, failed or not.
JoinAfterStore(c, t) ==
    /\ UNCHANGED <<nev, used>>
    /\ t \in BagToSet(tasks[c])
    /\ t.kind = "join" /\ t.pc = "storeDone"
    /\ IF StoreErrorEscapes(t)
       THEN /\ last' = <<Entry(c, t, "out", "space-error", SockRoom(c), SpaceErrorTo(c),
                               t.room, 0, {})>>
            /\ tasks' = [tasks EXCEPT ![c] = Take(@, t)]
            /\ UNCHANGED <<chatRooms, joined, known>>
       ELSE IF variant = "readonly"
       THEN JoinFinish(c, t, UsersReadOnly(t.room))
       ELSE /\ tasks' = [tasks EXCEPT ![c] =
                  Swap(@, t, [t EXCEPT !.pc = "users",
                                       !.snap = Recipients(SpaceRoom(t.room), {})])]
            /\ last' = <<>>
            /\ UNCHANGED <<chatRooms, joined, known>>
    /\ UNCHANGED <<cycles, shutdown, reply, ages, swept, now, env, issued, variant, conn, account, currentSession, rooms, sessions, faults>>

\* Enhanced server: the per-socket SELECTs of getUsersInSpace returned.
JoinAfterUsers(c, t) ==
    /\ UNCHANGED <<nev, used>>
    /\ t \in BagToSet(tasks[c])
    /\ t.kind = "join" /\ t.pc = "users"
    /\ JoinFinish(c, t, UsersEnhanced(t.snap))
    /\ UNCHANGED <<cycles, shutdown, reply, ages, swept, now, env, issued, variant, conn, account, currentSession, rooms, sessions, faults>>

\* ------------------------------------------------------ the session store
\* DELETE FROM presence_sessions WHERE socket_id = $1 (cleanupSession); an error
\* is caught and logged, the caller resumes either way.
ApplyDelete(c, t) ==
    /\ UNCHANGED <<nev, used>>
    /\ t \in BagToSet(tasks[c])
    /\ t.pc = "cleanup"
    /\ \E ok \in Outcomes :
         /\ sessions' = [sessions EXCEPT ![c] = IF ok THEN NoRoom ELSE @]
         /\ faults' = IF ok THEN faults ELSE faults + 1
    /\ tasks' = [tasks EXCEPT ![c] = Swap(@, t, [t EXCEPT !.pc = "cleanupDone"])]
    /\ last' = <<>>
    /\ UNCHANGED <<known, cycles, shutdown, reply, ages, swept, now, env, issued, variant, conn, account, currentSession, rooms, chatRooms, joined>>

\* INSERT INTO presence_sessions ... ON CONFLICT (socket_id) DO UPDATE; an error
\* is caught ("Continue even if DB fails").
ApplyUpsert(c, t) ==
    /\ UNCHANGED <<nev, used>>
    /\ t \in BagToSet(tasks[c])
    /\ t.pc = "store"
    /\ \E ok \in Outcomes :
         /\ sessions' = [sessions EXCEPT ![c] = IF ok THEN t.room ELSE @]
         /\ faults' = IF ok THEN faults ELSE faults + 1
         /\ tasks' = [tasks EXCEPT ![c] =
               Swap(@, t, [t EXCEPT !.pc = "storeDone", !.failed = ~ok])]
    /\ last' = <<>>
    /\ UNCHANGED <<known, cycles, shutdown, reply, ages, swept, now, env, issued, variant, conn, account, currentSession, rooms, chatRooms, joined>>

\* ------------------------------------------------------------- disconnect
\* if (currentSession) { socket.to(roomName).emit('user-left', ...) }, the first
\* statement of the listener, ahead of its only await.
DisconnectNotifiesWhenIdle(c) == HasSession(c) /\ tasks[c] = EmptyBag
DisconnectNotifies(c) == HasSession(c)

\* The socket has left all its rooms before the 'disconnect' listeners run.
Disconnect(c) ==
    /\ CanReceive(c)
    /\ nev' = nev + 1
    /\ UNCHANGED used
    /\ LET r == currentSession[c].roomName
           t == Task("disconnect", "cleanup", r, Guest, r, FALSE)
           in == Entry(c, t, "in", "disconnect", SockRoom(c), {}, r, 0, {})
           e == Entry(c, t, "out", "user-left", SpaceRoom(r),
                      Recipients(SpaceRoom(r), {c}), r, 0, {})
       IN /\ last' = IF DisconnectNotifies(c) THEN <<in, e>> ELSE <<in>>
          /\ tasks' = [tasks EXCEPT ![c] = Put(Overlapped(@), t)]
    /\ conn' = [conn EXCEPT ![c] = "gone"]
    /\ rooms' = [rooms EXCEPT ![c] = {}]
    /\ chatRooms' = [chatRooms EXCEPT ![c] = {}]
    /\ known' = [ToldAll(known, last') EXCEPT ![c] = {}]
    /\ UNCHANGED <<cycles, shutdown, reply, ages, swept, now, env, issued, variant, account, currentSession, sessions, faults, joined>>

DisconnectDone(c, t) ==
    /\ UNCHANGED <<nev, used>>
    /\ t \in BagToSet(tasks[c])
    /\ t.kind = "disconnect" /\ t.pc = "cleanupDone"
    /\ tasks' = [tasks EXCEPT ![c] = Take(@, t)]
    /\ last' = <<>>
    /\ UNCHANGED <<known, cycles, shutdown, reply, ages, swept, now, env, issued, variant, conn, account, currentSession, rooms, chatRooms, sessions, faults,
                   joined>>

\* ------------------------------------------------------------ chat-message
\* if (!content || content.length > 2000) { chat-error; return }
ValidContentOffByOne(len) == ~(len = 0 \/ len > MaxContentLength + 1)
ValidContent(len) == ~(len = 0 \/ len > MaxContentLength)

\* generateGuestId is evaluated only for a session without userAccount.  The
\* enhanced server passes it `req`, a name no scope of the handler binds: the
\* ReferenceError lands in the handler's catch.  The read-only server passes
\* { ip: socket.handshake.address }.
GuestIdThrows(c) == variant = "enhanced" /\ currentSession[c].userAccount = Guest

\* socket.on('chat-message') up to the await of the persistence call.
ChatMessage(c, len) ==
    /\ CanReceive(c)
    /\ nev' = nev + 1
    /\ UNCHANGED used
    /\ LET r == currentSession[c].roomName
           t == Task("chat", "persist", r, currentSession[c].userAccount, r, FALSE)
           in == Entry(c, NoTask, "in", "chat-message", SockRoom(c), {}, r, len, {})
           err == Entry(c, NoTask, "out", "chat-error", SockRoom(c), Self(c), r, len, {})
           call == Entry(c, t, "call", "persist", ChatRoom(r), {}, r, len, {})
       IN IF ~HasSession(c)
          THEN /\ last' = <<in>>
               /\ UNCHANGED tasks
          ELSE IF GuestIdThrows(c) \/ ~ValidContent(len)
          THEN /\ last' = <<in, err>>
               /\ UNCHANGED tasks
          ELSE /\ last' = <<in, call>>
               /\ tasks' = [tasks EXCEPT ![c] = Put(Older(@, "chat"), t)]
    /\ UNCHANGED <<known, cycles, shutdown, reply, ages, swept, now, env, issued, variant, conn, account, currentSession, rooms, chatRooms, sessions, faults,
                   joined>>

\* The persistence collaborator answers: POST /api/presence/chat/messages of the
\* data API (a non-ok status throws) or INSERT INTO chat_messages ... RETURNING *.
ApplyInsertMessage(c, t) ==
    /\ UNCHANGED <<nev, used>>
    /\ t \in BagToSet(tasks[c])
    /\ t.pc = "persist"
    /\ \E ok \in Outcomes :
         /\ tasks' = [tasks EXCEPT ![c] =
               Swap(@, t, [t EXCEPT !.pc = IF ok THEN "persistOk" ELSE "persistFail"])]
         /\ faults' = IF ok THEN faults ELSE faults + 1
    /\ last' = <<>>
    /\ UNCHANGED <<known, cycles, shutdown, reply, ages, swept, now, env, issued, variant, conn, account, currentSession, rooms, chatRooms, sessions, joined>>

\* The room the persisted message is broadcast to: `chat:${currentSession.roomName}`
\* with currentSession read after the await.
ChatTarget(c, t) == ChatRoom(currentSession[c].roomName)

\* socket.emit('chat-error', ...) in the catch of the handler.
ChatErrorToRoom(c) == Recipients(ChatRoom(currentSession[c].roomName), {})
ChatErrorTo(c) == Self(c)

ChatAfterPersist(c, t) ==
    /\ UNCHANGED <<nev, used>>
    /\ t \in BagToSet(tasks[c])
    /\ t.kind = "chat" /\ t.pc \in {"persistOk", "persistFail"}
    /\ LET ch == ChatTarget(c, t)
           msg == Entry(c, t, "out", "chat-message", ch, Recipients(ch, {}), t.room, 1, {})
           err == Entry(c, t, "out", "chat-error", SockRoom(c), ChatErrorTo(c), t.room, 1, {})
       IN /\ last' = <<IF t.pc = "persistOk" THEN msg ELSE err>>
          /\ tasks' = [tasks EXCEPT ![c] =
                IF t.pc = "persistOk" THEN Passed(Take(@, t), t, msg.to) ELSE Take(@, t)]
    /\ UNCHANGED <<known, cycles, shutdown, reply, ages, swept, now, env, issued, variant, conn, account, currentSession, rooms, chatRooms, sessions, faults,
                   joined>>

\* ------------------------------------------------------- WebRTC signalling
\* socket.on('webrtc-offer' | 'webrtc-answer' | 'webrtc-ice-candidate'):
\* socket.to(data.targetSocketId).emit(...), a broadcast to the room of that name.
Signal(c, ev, target) ==
    /\ CanReceive(c)
    /\ nev' = nev + 1
    /\ UNCHANGED used
    /\ LET in == Entry(c, NoTask, "in", ev, target, {}, NoRoom, 0, {})
           fwd == Entry(c, NoTask, "out", ev, target, Recipients(target, {c}), NoRoom, 0, {})
       IN last' = IF HasSession(c) THEN <<in, fwd>> ELSE <<in>>
    /\ UNCHANGED <<known, cycles, shutdown, reply, ages, swept, now, env, issued, variant, conn, account, currentSession, rooms, chatRooms, sessions, tasks,
                   faults, joined>>

\* ------------------------------------------------------------ aframe-update
\* socket.on('aframe-update') up to the await of the session update.  The
\* handler's snap is who was in the room of the session when the event arrived.
AframeUpdate(c) ==
    /\ CanReceive(c)
    /\ nev' = nev + 1
    /\ LET r == currentSession[c].roomName
           t == [Task("aframe", "update", r, currentSession[c].userAccount, r, FALSE)
                    EXCEPT !.snap = Members(r)]
           in == Entry(c, NoTask, "in", "aframe-update", SockRoom(c), {}, r, 0, {})
           call == Entry(c, t, "call", "update", SpaceRoom(r), {}, r, 0, {})
       IN IF ~HasSession(c)
          THEN /\ last' = <<in>>
               /\ UNCHANGED tasks
          ELSE /\ last' = <<in, call>>
               /\ tasks' = [tasks EXCEPT ![c] = Put(Older(@, "aframe"), t)]
    /\ UNCHANGED <<known, cycles, shutdown, reply, ages, swept, now, env, issued, variant, conn, account, currentSession, rooms, chatRooms,
                   sessions, faults, joined, used>>

\* PUT /api/presence/sessions/:socketId of the data API or UPDATE presence_sessions
\* SET last_activity, position WHERE socket_id = $1: the room of the row is not
\* touched; an error is caught and logged.
ApplyUpdate(c, t) ==
    /\ t \in BagToSet(tasks[c])
    /\ t.pc = "update"
    /\ \E ok \in Outcomes : faults' = IF ok THEN faults ELSE faults + 1
    /\ tasks' = [tasks EXCEPT ![c] = Swap(@, t, [t EXCEPT !.pc = "updateDone"])]
    /\ last' = <<>>
    /\ UNCHANGED <<known, cycles, shutdown, reply, ages, swept, now, env, issued, variant, conn, account, currentSession, rooms, chatRooms,
                   sessions, joined, nev, used>>

\* socket.to(currentSession.roomName).emit('aframe-update', ...), currentSession
\* read after the await.
AframeTarget(c, t) == SpaceRoom(currentSession[c].roomName)

AframeAfterUpdate(c, t) ==
    /\ t \in BagToSet(tasks[c])
    /\ t.kind = "aframe" /\ t.pc = "updateDone"
    /\ LET ch == AframeTarget(c, t)
           upd == Entry(c, t, "out", "aframe-update", ch, Recipients(ch, {c}), ch[2], 0, {})
       IN /\ last' = <<upd>>
          /\ tasks' = [tasks EXCEPT ![c] = Passed(Take(@, t), t, upd.to)]
    /\ UNCHANGED <<known, cycles, shutdown, reply, ages, swept, now, env, issued, variant, conn, account, currentSession, rooms, chatRooms,
                   sessions, faults, joined, nev, used>>

\* ------------------------------------------------------- relay credentials
\* const ttl = 3600
TurnTtl == 3600
\* process.env.TURN_SECRET || 'default_secret'
Secret == IF env = "" THEN "default_secret" ELSE env
\* Math.floor(Date.now() / 1000) + ttl
TimestampNoFloor(ms) == ms + TurnTtl
Timestamp(ms) == (ms \div 1000) + TurnTtl
\* username ? `${timestamp}:${username}` : `${timestamp}:temp`
TurnUsernameNoTemp(timestamp, username) == ToString(timestamp) \o ":" \o username
TurnUsername(timestamp, username) ==
    IF username \notin {Guest, ""}
    THEN ToString(timestamp) \o ":" \o username
    ELSE ToString(timestamp) \o ":" \o "temp"
\* crypto.createHmac('sha1', secret).update(turnUsername).digest('base64'): the
\* digest as a term over the key and the message.
HmacSha1Base64(secret, message) == <<"base64", <<"hmac-sha1", secret, message>>>>

generateTurnCredentials(username) ==
    LET turnUsername == TurnUsername(Timestamp(now), username)
    IN [username |-> turnUsername,
        password |-> HmacSha1Base64(Secret, turnUsername),
        ttl |-> TurnTtl]

\* GET /api/webrtc/turn-config and POST /api/spaces/:type/:id/join answer with
\* generateTurnCredentials(req.user?.account).
GetTurnCredentials(username) ==
    /\ Cardinality(issued) < MaxIssued
    /\ issued' = issued \cup {[identity |-> username, at |-> now, secret |-> Secret,
                                cred |-> generateTurnCredentials(username)]}
    /\ UNCHANGED <<known, cycles, shutdown, reply, ages, swept, now, env, variant, conn, account, currentSession, rooms, chatRooms,
                   sessions, tasks, faults, joined, nev, used, last>>

\* Time passes.
Tick(ms) ==
    /\ now + ms <= MaxNow
    /\ now' = now + ms
    /\ UNCHANGED <<known, cycles, shutdown, reply, ages, swept, env, issued, variant, conn, account, currentSession, rooms, chatRooms,
                   sessions, tasks, faults, joined, nev, used, last>>

\* The server has started at some instant with some TURN_SECRET in its environment.
InitCredentials == Start(0) /\ now \in Instants /\ env \in Secrets

\* ------------------------------------------- POST /api/spaces/:type/:id/join
\* JavaScript's ToNumber of space.max_users: null counts as 0.
ToNumber(max) == IF max = {} THEN 0 ELSE CHOOSE n \in max : TRUE
\* if (spaceData.space.active_users >= spaceData.space.max_users)
SpaceFullOffByOne(active, max) == active > ToNumber(max)
SpaceFull(active, max) == active >= ToNumber(max)

\* The status of the answer: the catch of the handler answers 500 when fetch
\* rejects, !spaceCheck.ok answers 403, a full space 429, otherwise 200.
JoinStatus(check, active, max) ==
    IF check = 0 THEN 500
    ELSE IF ~(check \in 200..299) THEN 403
    ELSE IF SpaceFull(active, max) THEN 429
    ELSE 200

\* app.post('/api/spaces/:spaceType/:spaceId/join'): the space check answered
\* `check` with `active` users of `max`; turn_credentials are generated for the
\* 200 answer alone.
Answer(username, check, active, max) ==
    /\ Cardinality(issued) < MaxIssued
    /\ LET status == JoinStatus(check, active, max)
           cred == generateTurnCredentials(username)
       IN /\ reply' = [status |-> status, check |-> check, active |-> active, max |-> max,
                       identity |-> username,
                       cred |-> IF status = 200 THEN {cred} ELSE {}]
          /\ issued' = IF status = 200
                       THEN issued \cup {[identity |-> username, at |-> now,
                                          secret |-> Secret, cred |-> cred]}
                       ELSE issued

HttpJoin(username, check, active, max) ==
    /\ Answer(username, check, active, max)
    /\ UNCHANGED <<known, cycles, shutdown, ages, swept, now, env, variant, conn, account,
                   currentSession, rooms, chatRooms, sessions, tasks, faults, joined, nev,
                   used, last>>

\* SELECT COUNT(*) FROM presence_sessions WHERE space_type = $1 AND space_id = $2
\* AND last_activity > NOW() - INTERVAL '5 minutes': the rows of the space, every
\* row of the model being recent.
ActiveUsers(r) == Cardinality({c \in Conns : sessions[c] = r})

\* The same endpoint, called by a client for a space the sockets of the model
\* join, whose presence_space_settings row has max_users = SpaceMaxUsers: the
\* space check answers 200 with the active_users counted from the session store.
\* Nothing the endpoint does is seen by socket.on('join-space').
HttpJoinSpace(username, r) ==
    /\ nev < MaxEvents
    /\ r <= used + 1
    /\ used' = IF r > used THEN r ELSE used
    /\ nev' = nev + 1
    /\ Answer(username, 200, ActiveUsers(r), {SpaceMaxUsers})
    /\ last' = <<>>
    /\ UNCHANGED <<known, cycles, shutdown, ages, swept, now, env, variant, conn, account,
                   currentSession, rooms, chatRooms, sessions, tasks, faults, joined>>

\* --------------------------------------------------------------- deployment
\* docker-compose.yml, service presence-api: TURN_SECRET=${TURN_SECRET:-default_turn_secret},
\* the host's value, or the default when the host has none or an empty one.
ComposeApiSecret(host) == IF host = "" THEN "default_turn_secret" ELSE host
\* The relay runs `turnserver -c /etc/coturn/turnserver.conf` on the mounted
\* file, whose static-auth-secret is written out in full: STATIC_AUTH_SECRET of
\* the compose file is not read by turnserver, and the sed of start-coturn.sh
\* finds no __TURN_SECRET__ in the file.
RelaySecret == "default_turn_secret_change_me"
\* The relay accepts a credential whose password is the HMAC of its username
\* under the relay's secret.
RelayAccepts(cred) == cred.password = HmacSha1Base64(RelaySecret, cred.username)
\* The API as docker-compose.yml starts it, for each TURN_SECRET of the host.
InitDeployed == Start(0) /\ now \in Instants /\ env \in {ComposeApiSecret(h) : h \in Secrets}

\* ------------------------------------------------- presence_sessions cleanup
\* A session row is written or refreshed: last_activity = NOW().
Touch ==
    /\ BagCardinality(ages) < NumRows
    /\ ages' = Put(ages, 0)
    /\ UNCHANGED <<known, cycles, shutdown, reply, swept, now, env, issued, variant, conn, account, currentSession,
                   rooms, chatRooms, sessions, tasks, faults, joined, nev, used, last>>

\* m minutes pass: every row is m minutes older.
Elapse(m) ==
    /\ ages /= EmptyBag
    /\ \A a \in BagToSet(ages) : a + m <= MaxAge
    /\ ages' = Rewrite(ages, [a \in BagToSet(ages) |-> a + m])
    /\ UNCHANGED <<known, cycles, shutdown, reply, swept, now, env, issued, variant, conn, account, currentSession,
                   rooms, chatRooms, sessions, tasks, faults, joined, nev, used, last>>

\* The rows with last_activity < NOW() - INTERVAL of `age` minutes are deleted.
DeleteOlderThan(b, age) ==
    LET keep == {a \in BagToSet(b) : ~(a > age)}
    IN [a \in keep |-> b[a]]

\* sync.js, cleanupOldData, run every hour by runCleanupCycle: DELETE FROM
\* presence_sessions WHERE last_activity < NOW() - INTERVAL '2 hours'; an error
\* of the query is caught and logged.
cleanupOldDataAge == 120
cleanupOldData ==
    /\ ages /= EmptyBag
    /\ \E ok \in BOOLEAN :
         ages' = IF ok THEN DeleteOlderThan(ages, cleanupOldDataAge) ELSE ages
    /\ swept' = [task |-> "cleanupOldData", found |-> ages, left |-> ages']
    /\ UNCHANGED <<known, cycles, shutdown, reply, now, env, issued, variant, conn, account, currentSession,
                   rooms, chatRooms, sessions, tasks, faults, joined, nev, used, last>>

\* The schema's cleanup_old_sessions(): DELETE FROM presence_sessions WHERE
\* last_activity < NOW() - INTERVAL '1 hour'.
cleanup_old_sessionsAge == 60
cleanup_old_sessions ==
    /\ ages /= EmptyBag
    /\ ages' = DeleteOlderThan(ages, cleanup_old_sessionsAge)
    /\ swept' = [task |-> "cleanup_old_sessions", found |-> ages, left |-> ages']
    /\ UNCHANGED <<known, cycles, shutdown, reply, now, env, issued, variant, conn, account, currentSession,
                   rooms, chatRooms, sessions, tasks, faults, joined, nev, used, last>>

\* ------------------------------------------------------ sync.js: sync cycles
\* syncPosts, syncCollaborationDocuments, syncCollaborationPermissions.
Steps == {"posts", "documents", "permissions"}
\* How a step ends: rows upserted and its last_run marker set; no recent row
\* (return before the marker); a query or redis.set raised.
StepOutcomes == {"synced", "empty", "failed"}

\* runSyncCycle has just been called: Promise.all has called the three steps.
\* marked: the steps whose sync:<step>:last_run this cycle has set.
Cycle(by) ==
    [by |-> by, pc |-> "steps", step |-> [st \in Steps |-> "running"], marked |-> {},
     cache |-> "none", status |-> "none"]

InProgress == {i \in DOMAIN cycles : cycles[i].pc /= "done"}
Finished(q) == q.pc = "done"
Unfinished(q) == q.pc /= "done"

\* startup(): the connections answer, then `await runSyncCycle()`.
startup ==
    /\ cycles = <<>>
    /\ cycles' = <<Cycle("startup")>>
    /\ UNCHANGED <<shutdown, known, reply, ages, swept, now, env, issued, variant, conn, account,
                   currentSession, rooms, chatRooms, sessions, tasks, faults, joined, nev,
                   used, last>>

\* setInterval(runSyncCycle, 60000), set once the initial cycle has returned: the
\* timer calls runSyncCycle every minute, whatever earlier calls are doing.  The
\* cycles that have returned are forgotten.
TimerFires ==
    /\ cycles /= <<>>
    /\ \E i \in DOMAIN cycles : cycles[i].by = "timer" \/ Finished(cycles[i])
    /\ Cardinality(InProgress) < MaxCycles
    /\ cycles' = Append(SelectSeq(cycles, Unfinished), Cycle("timer"))
    /\ UNCHANGED <<shutdown, known, reply, ages, swept, now, env, issued, variant, conn, account,
                   currentSession, rooms, chatRooms, sessions, tasks, faults, joined, nev,
                   used, last>>

\* try { ... } catch (error) { console.error(...) } around the whole body of a
\* step: the promise of a step never rejects.
StepRejectsOnFailure(outcome) == outcome = "failed"
StepRejects(outcome) == FALSE

\* A step of cycle i returns.  `await redis.set('sync:<step>:last_run', ...)` is
\* its last statement.  Promise.all resolves when the three have returned.
StepSettles(i, st, outcome) ==
    /\ i \in DOMAIN cycles
    /\ cycles[i].pc = "steps" /\ cycles[i].step[st] = "running"
    /\ LET q == [cycles[i] EXCEPT !.step[st] = outcome,
                                  !.marked = IF outcome = "synced" THEN @ \cup {st} ELSE @]
           all == \A o \in Steps : q.step[o] /= "running"
       IN cycles' = [cycles EXCEPT ![i] =
              IF StepRejects(outcome) THEN [q EXCEPT !.pc = "done"]
              ELSE IF all THEN [q EXCEPT !.pc = "cache"]
              ELSE q]
    /\ UNCHANGED <<shutdown, known, reply, ages, swept, now, env, issued, variant, conn, account,
                   currentSession, rooms, chatRooms, sessions, tasks, faults, joined, nev,
                   used, last>>

\* await updateSpaceCache(): its errors are caught and logged inside.
updateSpaceCache(i, ok) ==
    /\ i \in DOMAIN cycles
    /\ cycles[i].pc = "cache"
    /\ cycles' = [cycles EXCEPT ![i] =
          [@ EXCEPT !.cache = IF ok THEN "updated" ELSE "failed", !.pc = "status"]]
    /\ UNCHANGED <<shutdown, known, reply, ages, swept, now, env, issued, variant, conn, account,
                   currentSession, rooms, chatRooms, sessions, tasks, faults, joined, nev,
                   used, last>>

\* await logSyncStatus(): its errors are caught and logged inside; the cycle
\* returns.
logSyncStatus(i, ok) ==
    /\ i \in DOMAIN cycles
    /\ cycles[i].pc = "status"
    /\ cycles' = [cycles EXCEPT ![i] =
          [@ EXCEPT !.status = IF ok THEN "logged" ELSE "failed", !.pc = "done"]]
    /\ UNCHANGED <<shutdown, known, reply, ages, swept, now, env, issued, variant, conn, account,
                   currentSession, rooms, chatRooms, sessions, tasks, faults, joined, nev,
                   used, last>>

\* ------------------------------------------- index.js: gracefulShutdown
\* shutdown.signal: the signal that began the shutdown, as logged;
\* shutdown.closed: the close calls made so far, in the order they were made;
\* shutdown.failed: the closes that reported an error; shutdown.timer: the
\* 10-second forceExitTimeout; shutdown.exit: the exit code, once exited.
ShutdownSignals == {"SIGTERM", "SIGINT", "SIGUSR2"}
CloseOrder == <<"http", "io", "pool", "redis">>

\* if (isShuttingDown) { ...; return; }
ShutdownInProgressNever == FALSE
ShutdownInProgress == shutdown.isShuttingDown

\* gracefulShutdown(signal), up to its first await: the flag, the timer, and
\* server.close(...) called by the promise executor.
gracefulShutdown(signal) ==
    /\ variant = "readonly"
    /\ shutdown.exit = {}
    /\ shutdown.signals < MaxSignals
    /\ shutdown' =
          IF ShutdownInProgress
          THEN [shutdown EXCEPT !.signals = @ + 1]
          ELSE [shutdown EXCEPT !.signals = @ + 1, !.isShuttingDown = TRUE,
                                !.signal = signal, !.runs = @ + 1, !.timer = "armed",
                                !.pc = "http", !.closed = <<"http">>]
    /\ UNCHANGED <<cycles, known, reply, ages, swept, now, env, issued, variant, conn, account,
                   currentSession, rooms, chatRooms, sessions, tasks, faults, joined, nev,
                   used, last>>

\* process.on('uncaughtException'): starts the shutdown unless one is running.
uncaughtException ==
    /\ ~shutdown.isShuttingDown
    /\ gracefulShutdown("UNCAUGHT_EXCEPTION")

\* The callback of server.close.  With an error the promise rejects and the outer
\* catch clears the timer and exits with 1.  Without, io.close(...) is called,
\* not awaited, and then replicaPool.end().  The callback comes only when the
\* last connection of the server has ended.
HttpClosed(ok) ==
    /\ shutdown.pc = "http" /\ shutdown.exit = {}
    /\ shutdown' =
          IF ok
          THEN [shutdown EXCEPT !.closed = @ \o <<"io", "pool">>, !.pc = "pool"]
          ELSE [shutdown EXCEPT !.failed = @ \cup {"http"}, !.timer = "cleared",
                                !.exit = {1}, !.pc = "exited"]
    /\ UNCHANGED <<cycles, known, reply, ages, swept, now, env, issued, variant, conn, account,
                   currentSession, rooms, chatRooms, sessions, tasks, faults, joined, nev,
                   used, last>>

\* replicaPool.end() settles; its error is caught and logged.  redis.quit() is
\* called.
PoolClosed(ok) ==
    /\ shutdown.pc = "pool" /\ shutdown.exit = {}
    /\ shutdown' = [shutdown EXCEPT !.failed = IF ok THEN @ ELSE @ \cup {"pool"},
                                    !.closed = Append(@, "redis"), !.pc = "redis"]
    /\ UNCHANGED <<cycles, known, reply, ages, swept, now, env, issued, variant, conn, account,
                   currentSession, rooms, chatRooms, sessions, tasks, faults, joined, nev,
                   used, last>>

\* redis.quit() settles; its error is caught and logged.  clearTimeout,
\* process.exit(0).
RedisClosed(ok) ==
    /\ shutdown.pc = "redis" /\ shutdown.exit = {}
    /\ shutdown' = [shutdown EXCEPT !.failed = IF ok THEN @ ELSE @ \cup {"redis"},
                                    !.timer = "cleared", !.exit = {0}, !.pc = "exited"]
    /\ UNCHANGED <<cycles, known, reply, ages, swept, now, env, issued, variant, conn, account,
                   currentSession, rooms, chatRooms, sessions, tasks, faults, joined, nev,
                   used, last>>

\* forceExitTimeout fires, 10 seconds after the shutdown began: process.exit(1).
ForceExit ==
    /\ shutdown.timer = "armed" /\ shutdown.exit = {}
    /\ shutdown' = [shutdown EXCEPT !.timer = "fired", !.exit = {1}, !.pc = "exited"]
    /\ UNCHANGED <<cycles, known, reply, ages, swept, now, env, issued, variant, conn, account,
                   currentSession, rooms, chatRooms, sessions, tasks, faults, joined, nev,
                   used, last>>

\* ---------------------------------------------------------- specifications
\* The suspended handlers of a connection.  Each resumes when its own external
\* call has settled: an await gives the event loop back and holds nothing.
PendingBehindOthers(c) ==
    IF \E d \in Conns \ {c} : tasks[d] /= EmptyBag THEN {} ELSE BagToSet(tasks[c])
Pending(c) == BagToSet(tasks[c])

Membership ==
    \/ \E c \in Conns : \E u \in Accounts : Connect(c, u)
    \/ \E c \in Conns : \E r \in Rooms : \E u \in Accounts : JoinSpace(c, r, u)
    \/ \E c \in Conns : JoinSpaceThrows(c)
    \/ \E c \in Conns : Disconnect(c)
    \/ \E c \in Conns : \E t \in Pending(c) : ApplyDelete(c, t)
    \/ \E c \in Conns : \E t \in Pending(c) : ApplyUpsert(c, t)
    \/ \E c \in Conns : \E t \in Pending(c) : JoinAfterCleanup(c, t)
    \/ \E c \in Conns : \E t \in Pending(c) : JoinAfterStore(c, t)
    \/ \E c \in Conns : \E t \in Pending(c) : JoinAfterUsers(c, t)
    \/ \E c \in Conns : \E t \in Pending(c) : DisconnectDone(c, t)

Chat ==
    \/ \E c \in Conns : \E len \in ContentLengths : ChatMessage(c, len)
    \/ \E c \in Conns : \E t \in Pending(c) : ApplyInsertMessage(c, t)
    \/ \E c \in Conns : \E t \in Pending(c) : ChatAfterPersist(c, t)

Signalling ==
    \E c \in Conns : \E ev \in SignalEvents : \E target \in Targets : Signal(c, ev, target)

Aframe ==
    \/ \E c \in Conns : AframeUpdate(c)
    \/ \E c \in Conns : \E t \in Pending(c) : ApplyUpdate(c, t)
    \/ \E c \in Conns : \E t \in Pending(c) : AframeAfterUpdate(c, t)

Credentials ==
    \/ \E username \in Identities : GetTurnCredentials(username)
    \/ \E ms \in Ticks : Tick(ms)

Http ==
    \E username \in Identities : \E check \in SpaceChecks :
        \E active \in Counts : \E max \in Limits : HttpJoin(username, check, active, max)

Capacity ==
    \E username \in Accounts : \E r \in Rooms : HttpJoinSpace(username, r)

Sync ==
    \/ startup
    \/ TimerFires
    \/ \E i \in 1..(MaxCycles + 1) : \E st \in Steps : \E outcome \in StepOutcomes :
          StepSettles(i, st, outcome)
    \/ \E i \in 1..(MaxCycles + 1) : \E ok \in BOOLEAN : updateSpaceCache(i, ok)
    \/ \E i \in 1..(MaxCycles + 1) : \E ok \in BOOLEAN : logSyncStatus(i, ok)

Shutdown ==
    \/ \E signal \in ShutdownSignals : gracefulShutdown(signal)
    \/ uncaughtException
    \/ \E ok \in BOOLEAN : HttpClosed(ok)
    \/ \E ok \in BOOLEAN : PoolClosed(ok)
    \/ \E ok \in BOOLEAN : RedisClosed(ok)
    \/ ForceExit

Cleanup ==
    \/ Touch
    \/ \E m \in Minutes : Elapse(m)
    \/ cleanupOldData
    \/ cleanup_old_sessions

Next == Membership \/ Chat \/ Signalling \/ Aframe \/ Credentials \/ Http \/ Capacity
            \/ Cleanup \/ Sync \/ Shutdown

Spec == Init /\ [][Next]_vars
SpecMembership == Init /\ [][Membership]_vars
SpecChat == Init /\ [][Membership \/ Chat]_vars
SpecSignalling == Init /\ [][Membership \/ Signalling]_vars
SpecReliable == InitReliable /\ [][Membership]_vars
SpecAframe == Init /\ [][Membership \/ Aframe]_vars

\* A step of a handler of connection c or of the external call it awaits.
Progress(c) ==
    \E t \in Pending(c) :
        \/ ApplyDelete(c, t) \/ ApplyUpsert(c, t) \/ ApplyInsertMessage(c, t)
        \/ ApplyUpdate(c, t)
        \/ JoinAfterCleanup(c, t) \/ JoinAfterStore(c, t) \/ JoinAfterUsers(c, t)
        \/ DisconnectDone(c, t) \/ ChatAfterPersist(c, t) \/ AframeAfterUpdate(c, t)

\* The last connection to connect is served by its collaborators, and Node runs
\* every handler whose await has settled.  Nothing is assumed of the calls of
\* the other connections: they may stay unanswered for ever.
Served == NumConns
SpecStalled == Init /\ [][Membership \/ Chat \/ Aframe]_vars /\ WF_vars(Progress(Served))
SpecCredentials == InitCredentials /\ [][Credentials]_vars
SpecEvents == Init /\ [][Membership \/ Chat \/ Signalling \/ Aframe]_vars
SpecHttp == InitCredentials /\ [][Http]_vars
SpecDeployed == InitDeployed /\ [][Credentials]_vars
SpecCleanup == Init /\ [][Cleanup]_vars
SpecCapacity == Init /\ [][Membership \/ Capacity]_vars
SpecSync == Init /\ [][Sync]_vars
\* The timer of a running process fires.
SpecShutdown == Init /\ [][Shutdown]_vars /\ WF_vars(ForceExit)

\* ------------------------------------------------------------------ claims
Quiet(c) == tasks[c] = EmptyBag
IsSignal(e) == e.ev \in SignalEvents
SoloMove(e) ==
    /\ e.dir = "out" /\ e.ev = "user-joined"
    /\ e.t.solo /\ e.t.from /= NoRoom /\ e.t.from /= e.t.room

\* C1: at every point after a space-joined was sent for a connection, the session
\* registry holds a row for it (never none; socket_id is UNIQUE, so never two)
\* and the row is that of the room of the latest space-joined.
C1_RegistryHoldsLatestJoin ==
    \A c \in Conns :
        (conn[c] = "open" /\ joined[c] /= NoRoom) => sessions[c] = joined[c]

\* C2: a connected socket is in at most one space room at every instant.
C2_AtMostOneSpaceRoom ==
    \A c \in Conns : conn[c] = "open" => Cardinality(rooms[c]) <= 1

\* C3: a join-space that moves a connection from room A to another room B, with
\* no other join-space and no disconnect of that connection running meanwhile,
\* has sent its one user-left to A, to the members A had left, before it sends
\* its user-joined to B, to the members of B other than the connection.
C3_MoveLeftThenJoined ==
    \A i \in DOMAIN last :
        LET e == last[i] IN
        /\ SoloMove(e) =>
              /\ e.t.left = e.t.from
              /\ e.ch = SpaceRoom(e.t.room)
              /\ e.to = e.mem \ {e.by}
        /\ (e.dir = "out" /\ e.ev = "user-left" /\ e.t.kind = "join" /\ e.t.solo) =>
              /\ e.ch = SpaceRoom(e.t.from)
              /\ e.room = e.t.from
              /\ e.to = e.mem \ {e.by}

\* A move A -> B of a connection, alone among its handlers, has just told the
\* other member of B.
C3_Witness ==
    \E i \in DOMAIN last : SoloMove(last[i]) /\ last[i].to /= {} /\ last[i].t.left /= NoRoom

\* C4: the disconnect of a connection with a currentSession yields one user-left
\* (that of the disconnect handler, none by another handler of the gone
\* connection), and once its handlers have all finished the registry holds no
\* row for it.
C4_DisconnectLeavesNothing ==
    /\ \A c \in Conns : (conn[c] = "gone" /\ Quiet(c)) => sessions[c] = NoRoom
    /\ \A i \in DOMAIN last :
          (last[i].ev = "user-left" /\ conn[last[i].by] = "gone")
              => last[i].t.kind = "disconnect"

\* C5: a signalling event is handed to no socket but the one whose id is the
\* event's targetSocketId.
C5_SignalOnlyToTarget ==
    \A i \in DOMAIN last :
        (last[i].dir = "out" /\ IsSignal(last[i]))
            => last[i].to \subseteq {d \in Conns : SockRoom(d) = last[i].ch}

\* C6: a signalling event whose targetSocketId is the id of a socket that is not
\* connected is handed to nobody, the sender is sent nothing and no session,
\* room membership or row changes.
C6_AbsentTargetDropped ==
    [][(/\ last' /= <<>>
        /\ last'[1].dir = "in" /\ IsSignal(last'[1])
        /\ last'[1].ch[1] = "sock" /\ conn[last'[1].ch[2]] /= "open")
       => /\ \A i \in DOMAIN last' : last'[i].to = {} /\ last'[i].ev = last'[1].ev
          /\ UNCHANGED <<conn, currentSession, rooms, chatRooms, sessions, tasks, joined>>]_vars

\* A connection with a session has just signalled a socket that has disconnected.
C6_Witness ==
    /\ Len(last) = 2
    /\ IsSignal(last[2]) /\ last[2].dir = "out"
    /\ last[2].ch[1] = "sock" /\ conn[last[2].ch[2]] = "gone"

\* C7: a chat-message with empty or too long content from a connection with a
\* session gets chat-error, sent to the sender alone; persistence is not called,
\* no chat-message is emitted and no session or membership changes.
C7_InvalidChatRejected ==
    [][(/\ last' /= <<>>
        /\ last'[1].dir = "in" /\ last'[1].ev = "chat-message"
        /\ last'[1].cur /= NoRoom
        /\ (last'[1].len = 0 \/ last'[1].len > 2000))
       => /\ Len(last') = 2
          /\ last'[2].dir = "out" /\ last'[2].ev = "chat-error"
          /\ last'[2].to = {last'[1].by}
          /\ UNCHANGED <<conn, currentSession, rooms, chatRooms, sessions, tasks, joined>>]_vars

\* A chat-message of 2001 characters from a connection in a room was just refused.
C7_Witness ==
    /\ Len(last) = 2
    /\ last[1].dir = "in" /\ last[1].ev = "chat-message" /\ last[1].cur /= NoRoom
    /\ last[1].len = 2001
    /\ last[2].ev = "chat-error"

\* C8: a chat-message of 1 to 2000 characters from a connection with a session
\* is handed to persistence, and a chat-error follows only a failed persistence.
C8_ValidChatAccepted ==
    /\ (/\ last /= <<>>
        /\ last[1].dir = "in" /\ last[1].ev = "chat-message" /\ last[1].cur /= NoRoom
        /\ last[1].len >= 1 /\ last[1].len <= 2000)
       => (Len(last) = 2 /\ last[2].dir = "call" /\ last[2].ev = "persist")
    /\ \A i \in DOMAIN last :
          (last[i].ev = "chat-error" /\ last[i].t.kind = "chat") => last[i].t.pc = "persistFail"

\* C9: a persisted chat-message is broadcast to the chat room of the room it was
\* persisted under, and its sender, if still connected, is among the receivers.
C9_ChatToPersistedRoom ==
    \A i \in DOMAIN last :
        (last[i].dir = "out" /\ last[i].ev = "chat-message")
            => /\ last[i].ch = ChatRoom(last[i].room)
               /\ conn[last[i].by] = "open" => last[i].by \in last[i].to

\* C10: a chat-message broadcast for a room reaches current members of that room only.
C10_ChatOnlyToMembers ==
    \A i \in DOMAIN last :
        (last[i].dir = "out" /\ last[i].ev = "chat-message")
            => last[i].to \subseteq Members(last[i].ch[2])

IsOut(e, evs) == e.dir = "out" /\ e.ev \in evs

\* C11: the occupant list sent in space-joined holds the connections that joined
\* the room before its receiver: not the receiver itself, none but connected
\* members of the room, and each other member whose own join of the room has
\* completed.
C11_OccupantsJoinedBefore ==
    \A i \in DOMAIN last :
        LET e == last[i] IN
        IsOut(e, {"space-joined"}) =>
            /\ e.by \notin e.info
            /\ e.info \subseteq e.mem \ {e.by}
            /\ {d \in e.mem \ {e.by} : joined[d] = e.room} \subseteq e.info

\* C12: a join-space for the room the connection is already in, no other handler
\* of the connection running, hands no user-left and no user-joined to anybody.
C12_RefreshIsSilent ==
    \A i \in DOMAIN last :
        LET e == last[i] IN
        (/\ IsOut(e, {"user-left", "user-joined"})
         /\ e.t.kind = "join" /\ e.t.solo /\ e.t.from = e.t.room)
            => e.to = {}

\* C13: a join-space that ends in space-error has sent that error to the
\* requester alone and has changed no room membership, no currentSession, no row
\* of the registry and started no handler.
C13_FailedJoinChangesNothing ==
    [][(\E i \in DOMAIN last' : last'[i].ev = "space-error")
       => /\ Len(last') = 2
          /\ last'[1].dir = "in" /\ last'[1].ev = "join-space"
          /\ IsOut(last'[2], {"space-error"})
          /\ last'[2].by = last'[1].by
          /\ last'[2].to = {last'[1].by}
          /\ UNCHANGED <<conn, currentSession, rooms, chatRooms, sessions, tasks, joined>>]_vars

\* A connection that shares its room with another one was just refused a join-space.
C13_Witness ==
    /\ Len(last) = 2
    /\ IsOut(last[2], {"space-error"})
    /\ HasSession(last[2].by)
    /\ Members(currentSession[last[2].by].roomName) \ {last[2].by} /= {}

\* C14: user-joined, user-left and aframe-update caused by a connection are handed
\* to the connected members of the room they are emitted to other than that
\* connection, never to the connection itself; space-joined is handed to the
\* joining connection only.
C14_BroadcastsSkipSender ==
    \A i \in DOMAIN last :
        LET e == last[i] IN
        /\ IsOut(e, {"user-joined", "user-left", "aframe-update"}) =>
              /\ e.by \notin e.to
              /\ e.ch = SpaceRoom(e.room)
              /\ e.to = e.mem \ {e.by}
        /\ IsOut(e, {"space-joined"}) => e.to \subseteq {e.by}

\* An aframe-update of a connection was just handed to the other member of its room.
C14_Witness ==
    \E i \in DOMAIN last :
        /\ IsOut(last[i], {"aframe-update"})
        /\ last[i].to /= {}
        /\ last[i].by \in last[i].mem

\* C15: of two chat-message (or two aframe-update) events of one connection, no
\* socket is handed the broadcast of the later one before that of the earlier one.
C15_ReceiptOrderKept ==
    \A i \in DOMAIN last :
        IsOut(last[i], {"chat-message", "aframe-update"})
            => last[i].to \cap last[i].t.passed = {}

\* C16: once the handlers of a connected socket have all finished, with a store
\* that answered every call, the registry row of the connection is that of the
\* latest join-space received from it.
C16_LastJoinIsStored ==
    \A i \in DOMAIN last :
        LET e == last[i] IN
        (/\ IsOut(e, {"space-joined"})
         /\ e.t.latest
         /\ conn[e.by] = "open" /\ Quiet(e.by))
            => sessions[e.by] = e.t.room

C18_OthersNotStalled ==
    (tasks[Served] /= EmptyBag) ~> (tasks[Served] = EmptyBag)

\* A connection was just handed an event of its own room while a call of a
\* connection of another room was outstanding.
C18_Witness ==
    /\ \E t \in BagToSet(tasks[1]) : t.pc \in {"cleanup", "store", "persist", "update"}
    /\ currentSession[1].roomName /= currentSession[Served].roomName
    /\ \E i \in DOMAIN last :
          /\ last[i].by = Served
          /\ IsOut(last[i], {"space-joined", "chat-message", "aframe-update"})
          /\ Served \in last[i].to

\* C19: every issued credential has ttl 3600 and the username "<expiry>:<identity>",
\* "<expiry>:temp" for a guest, where expiry is the second of issuance plus 3600.
C19_CredentialShape ==
    \A x \in issued :
        LET expiry == (x.at \div 1000) + 3600
            name == IF x.identity = Guest THEN "temp" ELSE x.identity
        IN /\ x.cred.ttl = 3600
           /\ x.cred.username = ToString(expiry) \o ":" \o name

\* A guest and an account were each issued a credential, one of them in the
\* middle of a second.
C19_Witness ==
    /\ \E x \in issued : x.identity = Guest /\ x.at % 1000 /= 0
    /\ \E y \in issued : y.identity /= Guest

\* C20: two issuances for the same identity under the same secret in the same
\* clock second carry the same username and the same password, which is
\* base64(HMAC-SHA1(secret, username)), whatever was issued in between.
C20_SameInputsSameCredential ==
    \A x, y \in issued :
        (/\ x.identity = y.identity
         /\ x.secret = y.secret
         /\ x.at \div 1000 = y.at \div 1000)
            => /\ x.cred.username = y.cred.username
               /\ x.cred.password = y.cred.password
               /\ x.cred.password = HmacSha1Base64(x.secret, x.cred.username)

\* The same identity was issued credentials at two instants of one second, and
\* another identity was served as well.
C20_Witness ==
    \E x, y, z \in issued :
        /\ x.identity = y.identity /\ x.at /= y.at
        /\ x.at \div 1000 = y.at \div 1000
        /\ z.identity /= x.identity

\* C21: no credential is issued while TURN_SECRET is unset or empty: every issued
\* credential is signed with the configured secret, never with a built-in one.
C21_NoCredentialWithoutSecret ==
    \A x \in issued :
        /\ env /= ""
        /\ x.cred.password = HmacSha1Base64(env, x.cred.username)

\* C22: in either server, a chat-message of valid length from a guest (a session
\* without userAccount) is handed to persistence.
C22_GuestsCanChat ==
    (/\ last /= <<>>
     /\ last[1].dir = "in" /\ last[1].ev = "chat-message" /\ last[1].cur /= NoRoom
     /\ currentSession[last[1].by].userAccount = Guest
     /\ last[1].len \in 1..MaxContentLength)
        => \E i \in DOMAIN last : last[i].dir = "call" /\ last[i].ev = "persist"

\* C23: the aframe-update received from a connection in room R is broadcast to
\* room R, to every other member of R.
C23_AframeToRoomOfReceipt ==
    \A i \in DOMAIN last :
        (IsOut(last[i], {"aframe-update"}) /\ last[i].by \in last[i].t.snap)
            => /\ last[i].ch = SpaceRoom(last[i].t.room)
               /\ last[i].to = Members(last[i].t.room) \ {last[i].by}

\* C24: a chat-message, aframe-update or signalling event from a connection that
\* has joined no room emits nothing, calls nothing and changes no session or
\* membership; the disconnect of such a connection emits no user-left.
C24_NoRoomEventsInert ==
    [][(/\ last' /= <<>>
        /\ last'[1].dir = "in" /\ last'[1].cur = NoRoom
        /\ last'[1].ev \in {"chat-message", "aframe-update", "disconnect"} \cup SignalEvents)
       => /\ Len(last') = 1
          /\ UNCHANGED <<currentSession, rooms, chatRooms, sessions, joined, faults>>
          /\ last'[1].ev /= "disconnect" => UNCHANGED <<conn, tasks>>]_vars

\* A connection that has joined no room sent a signalling event to the socket of
\* a connection that is in a room.
C24_Witness ==
    /\ Len(last) = 1
    /\ last[1].dir = "in" /\ IsSignal(last[1]) /\ last[1].cur = NoRoom
    /\ \E d \in Conns \ {last[1].by} :
          last[1].ch = SockRoom(d) /\ conn[d] = "open" /\ rooms[d] /= {}

\* C25: when persistence fails for a chat-message, the handler emits one
\* chat-error, to the sender alone, emits no chat-message, and leaves every
\* membership and session as it was.
C25_PersistFailureOnlyError ==
    [][(/\ last' /= <<>>
        /\ last'[1].t.kind = "chat" /\ last'[1].t.pc = "persistFail")
       => /\ Len(last') = 1
          /\ IsOut(last'[1], {"chat-error"})
          /\ last'[1].to \subseteq {last'[1].by}
          /\ conn[last'[1].by] = "open" => last'[1].to = {last'[1].by}
          /\ UNCHANGED <<conn, currentSession, rooms, chatRooms, sessions, joined>>]_vars

\* The persistence of a message failed while another connection was in the chat
\* room of the sender: the sender, still in its room, was told.
C25_Witness ==
    /\ Len(last) = 1
    /\ IsOut(last[1], {"chat-error"}) /\ last[1].t.pc = "persistFail"
    /\ last[1].to = {last[1].by}
    /\ last[1].cur \in rooms[last[1].by] \cap chatRooms[last[1].by]
    /\ \E d \in Conns \ {last[1].by} : conn[d] = "open" /\ last[1].cur \in chatRooms[d]

\* C26: POST .../join answers 200 with credentials exactly when the space check
\* succeeded and active_users is below max_users, 403 without credentials when
\* the space is not accessible, 429 without credentials when the space is full.
C26_JoinAnswers ==
    reply /= NoReply =>
        LET ok == reply.check = 200
            below == \E n \in reply.max : reply.active < n
        IN /\ reply.status = 200 <=> (ok /\ below)
           /\ reply.status = 200 => \E cred \in reply.cred : cred.ttl = TurnTtl
           /\ reply.status /= 200 => reply.cred = {}
           /\ reply.check \in {404, 500} => reply.status = 403
           /\ (ok /\ ~below) => reply.status = 429

\* A join was answered 200 with credentials for the last free place of a space.
C26_Witness ==
    /\ reply.status = 200 /\ reply.check = 200
    /\ reply.max = {reply.active + 1}
    /\ reply.cred /= {}

\* C27: a run of a cleanup task deletes no session whose last_activity is less
\* than 2 hours old and leaves no session that is more than 2 hours old.
C27_TwoHourTtl ==
    swept /= NoSweep =>
        \A a \in BagToSet(swept.found) :
            /\ a < SessionTtl =>
                  (a \in BagToSet(swept.left) /\ swept.left[a] = swept.found[a])
            /\ a > SessionTtl => ~(a \in BagToSet(swept.left))

\* C28: in the deployment of docker-compose.yml, whatever TURN_SECRET the host
\* has, the API signs with the relay's static-auth-secret: the relay accepts
\* every credential the API issues.
C28_RelayAcceptsIssued ==
    \A x \in issued : RelayAccepts(x.cred)

\* C29: a join-space whose session write failed, and which no other join-space
\* or disconnect of its connection overlapped, ends as a successful one: the
\* connection is a member of the room, user-joined goes to the other members and
\* space-joined to the connection, and no space-error is emitted.
C29_StoreFailureStillJoins ==
    \A i \in DOMAIN last :
        (/\ IsOut(last[i], {"user-joined", "space-joined", "space-error"})
         /\ last[i].t.kind = "join" /\ last[i].t.failed /\ last[i].t.solo)
            => /\ Len(last) = 2
               /\ IsOut(last[1], {"user-joined"})
               /\ last[1].ch = SpaceRoom(last[i].t.room)
               /\ last[1].to = Members(last[i].t.room) \ {last[i].by}
               /\ IsOut(last[2], {"space-joined"})
               /\ last[2].to = {last[i].by}
               /\ last[i].by \in Members(last[i].t.room)

\* The session write of a join-space failed and the join completed: the other
\* member of the room was told and the connection got space-joined.
C29_Witness ==
    /\ Len(last) = 2
    /\ IsOut(last[1], {"user-joined"}) /\ last[1].t.failed /\ last[1].t.solo
    /\ last[1].to /= {}
    /\ IsOut(last[2], {"space-joined"}) /\ last[2].to = {last[2].by}
    /\ last[2].by \in Members(last[2].t.room)

\* C30: while the cleanup of a disconnect that emitted user-left is running, the
\* connection is in no room and no user-joined is emitted for it, whatever
\* join-space of the connection was awaiting a call at the disconnect.
C30_NothingAfterUserLeft ==
    \A c \in Conns :
        (\E d \in BagToSet(tasks[c]) : d.kind = "disconnect" /\ d.room /= NoRoom)
            => /\ rooms[c] = {}
               /\ chatRooms[c] = {}
               /\ \A i \in DOMAIN last :
                     ~(IsOut(last[i], {"user-joined"}) /\ last[i].by = c)

\* C31: a join-space handler emits user-left for its connection only to a room
\* the connection has left: never to a room it is a member of at that moment.
C31_UserLeftOnlyToRoomLeft ==
    \A i \in DOMAIN last :
        (IsOut(last[i], {"user-left"}) /\ last[i].t.kind = "join")
            => ~(last[i].by \in last[i].mem)

\* C32: two connected connections whose join-space handlers have all finished
\* and that are members of the same single room have each been told of the
\* other, by the users of space-joined or by a user-joined.
C32_MutualDiscovery ==
    \A x, y \in Conns :
        (/\ x /= y
         /\ conn[x] = "open" /\ conn[y] = "open"
         /\ Quiet(x) /\ Quiet(y)
         /\ \E r \in Rooms : rooms[x] = {r} /\ rooms[y] = {r}
                              /\ joined[x] = r /\ joined[y] = r)
            => y \in known[x]

\* C33: once the handlers of a connected connection have all finished, with a
\* store that answered every call, the room of its row in the session store is
\* the one space room it is a member of (no row when it is in no room).
C33_RegistryMatchesRooms ==
    \A c \in Conns :
        (conn[c] = "open" /\ Quiet(c))
            => rooms[c] = IF sessions[c] = NoRoom THEN {} ELSE {sessions[c]}

\* C34: the connected members of a space never number more than its max_users,
\* whatever HTTP joins and join-space events are received.
C34_MembersWithinMaxUsers ==
    \A r \in Rooms : Cardinality(Members(r)) <= SpaceMaxUsers

\* C35: at most one sync cycle is in progress at any time.
C35_OneCycleAtATime ==
    Cardinality(InProgress) <= 1

\* C36: a sync cycle that has returned has run its three steps to their end,
\* whichever of them failed, then the cache update and the status logging; and
\* at every moment a cycle has set the last_run marker of no step but those that
\* synced.
C36_StepsIsolated ==
    \A i \in DOMAIN cycles :
        /\ cycles[i].marked \subseteq {st \in Steps : cycles[i].step[st] = "synced"}
        /\ cycles[i].pc = "done" =>
              /\ \A st \in Steps : cycles[i].step[st] \in StepOutcomes
              /\ cycles[i].cache \in {"updated", "failed"}
              /\ cycles[i].status \in {"logged", "failed"}

\* A cycle has returned in which one step failed and the two others synced and
\* set their markers, and the cache was updated and the status logged.
C36_Witness ==
    \E i \in DOMAIN cycles :
        /\ cycles[i].pc = "done"
        /\ cycles[i].step["posts"] = "failed"
        /\ cycles[i].marked = {"documents", "permissions"}
        /\ cycles[i].cache = "updated" /\ cycles[i].status = "logged"

\* The safety part of C37.
ShutdownSafe ==
    /\ shutdown.runs <= 1
    /\ shutdown.closed = SubSeq(CloseOrder, 1, Len(shutdown.closed))
    /\ shutdown.exit = {0} =>
          /\ shutdown.closed = CloseOrder
          /\ ~("http" \in shutdown.failed)
          /\ shutdown.timer = "cleared"
    /\ shutdown.exit = {1} => ("http" \in shutdown.failed \/ shutdown.timer = "fired")

\* C37, amended: the shutdown sequence of the read-only server starts at most
\* once, the close calls are made in the order HTTP server, Socket.IO, database
\* pool, Redis, and the process eventually exits: with code 0 once the HTTP server
\* has closed without error and the three other closes have been called, whether
\* or not the pool or Redis reported an error; with code 1 when the HTTP server
\* reports an error or when the 10-second timer fires.
C37_ShutdownOnceAndExits ==
    [] ShutdownSafe /\ (shutdown.isShuttingDown ~> shutdown.exit /= {})

\* The process has exited with 0 after one shutdown sequence, three signals, and
\* an error of the database pool.
C37_Witness ==
    /\ shutdown.exit = {0} /\ shutdown.runs = 1 /\ shutdown.signals = MaxSignals
    /\ "pool" \in shutdown.failed

\* C37 as stated: a process that has exited after a close error has exited
\* with code 1.
C37_CloseErrorExitsOne ==
    (shutdown.exit /= {} /\ shutdown.failed /= {}) => shutdown.exit = {1}

====
